---- MODULE Spec2Model ----
(***************************************************************************)
(* Model of nydusd (src/src/bin/nydusd.rs): the vhost-user-fs backend      *)
(* device (handle_event / process_queue / update_memory) and the admin     *)
(* API control loop (ApiServer::control_loop with the mount closure of     *)
(* main).                                                                  *)
(***************************************************************************)
EXTENDS Integers, Sequences, FiniteSets, TLC

(* ---------------- program constants ---------------- *)

QUEUE_SIZE == 1024
NUM_QUEUES == 2
HIPRIO_QUEUE_EVENT == 0
REQ_QUEUE_EVENT == 1
KILL_EVENT == 2
\* epoll::Events::EPOLLIN as a bit mask (bit 0 of the event set)
EPOLLIN == 1

(* ---------------- bounds of the model ---------------- *)

\* descriptor head indexes the guest uses: 0..MaxHead
MaxHead == 1
\* number of descriptor chains the guest makes available in one run
MaxChains == 3
\* byte counts the message server reports: 0..MaxTotal
MaxTotal == 1
\* queue indexes handed to handle_event: 0..MaxIndex
MaxIndex == 3
\* event sets (bit masks) handed to handle_event: 0..MaxEvset
MaxEvset == 3

\* admin requests the HTTP thread submits in one run
MaxReqs == 2
\* interrupted polling waits in a row
MaxEintr == 2
\* queue events the daemon's workers handle in one run of the lifecycle
MaxEvents == 2

Heads == 0..MaxHead
Totals == 0..MaxTotal
Indexes == 0..MaxIndex
Evsets == 0..MaxEvset
Queues == 0..(NUM_QUEUES - 1)

VARIABLES
    mem,              \* self.mem is Some(..)
    avail,            \* per queue: heads on the available ring not yet taken
    used,             \* per queue: the used ring, entries <<head, len>>
    signals,          \* per queue: number of signal_used_queue calls done
    pc,               \* position of the data-plane worker
    cur,              \* index of the vring the current process_queue works on
    used_desc_heads,  \* the batch array, as its prefix [..used_count]
    pub,              \* number of batch entries already passed to add_used
    ret,              \* result of the last handle_event call
    call,             \* arguments of the last handle_event call
    taken,            \* heads the current call took from the available ring
    used0,            \* the used rings when the current call started
    signals0,         \* the signal counts when the current call started
    added,            \* chains the guest has made available so far
    api_evt,          \* counter of the eventfd api_evt
    api_chan,         \* requests sent on the api channel and not yet received
    api_sender_open,  \* the api_sender end of the channel still exists
    api_pc,           \* position of the api_handler thread in control_loop
    api_ret,          \* the value control_loop returned
    api_req,          \* the request control_loop has received last
    replies,          \* every reply sent so far, in the order of sending
    mounts,           \* the mount table of the Vfs: pairs <<path, instance>>
    next_id,          \* the number the next submitted request gets
    eintr,            \* interrupted polling waits since the last wake-up
    woke_after,       \* interrupted waits that preceded the last real wake-up
    issued_in,        \* per request: the mount in flight when it was submitted
    m_pc,             \* position of the main thread
    metadata,         \* --metadata: "" or the kind of file it names
    apisock,          \* --apisock was given
    api_sock_open,    \* the admin socket has been opened
    vhost_sock_open,  \* the vhost-user socket has been opened (daemon.start)
    wait_result,      \* what daemon.wait() returned
    kill_writes,      \* writes main has issued on kill_evt
    exit_code,        \* exit status of the process, -1 while it runs
    events,           \* queue events the daemon's workers have handled
    first_seen        \* whether the first queue event found "/" mounted

qvars == <<mem, avail, used, signals, pc, cur, used_desc_heads, pub, ret,
           call, taken, used0, signals0, added>>

avars == <<api_evt, api_chan, api_sender_open, api_pc, api_ret, api_req,
           replies, mounts, next_id, eintr, woke_after, issued_in>>

mvars == <<m_pc, metadata, apisock, api_sock_open, vhost_sock_open,
           wait_result, kill_writes, exit_code, events, first_seen>>

vars == <<qvars, avars, mvars>>

\* vrings.len() of the slice the daemon passes to handle_event: one vring
\* per queue of num_queues()
NumVrings == NUM_QUEUES

\* used_count of process_queue
used_count == Len(used_desc_heads)

(* ---------------- the virtio queue ---------------- *)

\* Queue::add_used(mem, desc_index, len): one more entry on the used ring
add_used(ring, desc_index, len) == Append(ring, <<desc_index, len>>)

\* the length argument process_queue passes to add_used for a batch entry
used_len(entry) == 0

\* Vring::signal_used_queue: one more signal on the queue
signal_used_queue(n) == n + 1

(* ---------------- data plane ---------------- *)

\* the guest driver puts one more descriptor chain on an available ring
GuestAddAvail(q, h) ==
    /\ added < MaxChains
    /\ added' = added + 1
    /\ avail' = [avail EXCEPT ![q] = Append(@, h)]
    /\ UNCHANGED <<mem, used, signals, pc, cur, used_desc_heads, pub, ret,
                   call, taken, used0, signals0>>
    /\ UNCHANGED <<avars, mvars>>

\* the guest makes the available ring of the high-priority queue present one
\* chain more than the queue is deep (the available index is the guest's to
\* write), every one with head 0
GuestFlood ==
    /\ added = 0
    /\ avail[HIPRIO_QUEUE_EVENT] = <<>>
    /\ added' = QUEUE_SIZE + 1
    /\ avail' = [avail EXCEPT
                   ![HIPRIO_QUEUE_EVENT] = [i \in 1..(QUEUE_SIZE + 1) |-> 0]]
    /\ UNCHANGED <<mem, used, signals, pc, cur, used_desc_heads, pub, ret,
                   call, taken, used0, signals0>>
    /\ UNCHANGED <<avars, mvars>>

\* update_memory: needs &mut self, so it never runs inside handle_event
update_memory ==
    /\ pc = "idle"
    /\ mem' = TRUE
    /\ UNCHANGED <<avail, used, signals, pc, cur, used_desc_heads, pub, ret,
                   call, taken, used0, signals0, added>>
    /\ UNCHANGED <<avars, mvars>>

\* handle_event accepting every event set that contains EPOLLIN
route_in_bit(index, evset) ==
    IF evset % 2 = 0 THEN <<"err", "HandleEventNotEpollIn">>
    ELSE IF index = HIPRIO_QUEUE_EVENT THEN <<"vring", HIPRIO_QUEUE_EVENT>>
    ELSE IF index >= REQ_QUEUE_EVENT /\ index < NumVrings THEN <<"vring", index>>
    ELSE <<"err", "HandleEventUnknownEvent">>

\* handle_event whose last match arm falls back to the request queue
route_default_req(index, evset) ==
    IF evset # EPOLLIN THEN <<"err", "HandleEventNotEpollIn">>
    ELSE IF index = HIPRIO_QUEUE_EVENT THEN <<"vring", HIPRIO_QUEUE_EVENT>>
    ELSE <<"vring", REQ_QUEUE_EVENT>>

\* the checks of handle_event: the vring (index, evset) is routed to, or the
\* error returned
route(index, evset) ==
    IF evset # EPOLLIN THEN <<"err", "HandleEventNotEpollIn">>
    ELSE IF index = HIPRIO_QUEUE_EVENT THEN <<"vring", HIPRIO_QUEUE_EVENT>>
    ELSE IF index >= REQ_QUEUE_EVENT /\ index < NumVrings THEN <<"vring", index>>
    ELSE <<"err", "HandleEventUnknownEvent">>

\* process_queue that takes the memory for granted
mem_check_skipped(m) == "ok"

\* the entry of process_queue: self.mem.as_ref().ok_or(NoMemoryConfigured)?
mem_check(m) == IF m THEN "ok" ELSE "NoMemoryConfigured"

\* handle_event up to the first iteration of the loop of process_queue
handle_event(index, evset) ==
    /\ pc = "idle"
    /\ call' = [index |-> index, evset |-> evset]
    /\ used0' = used
    /\ signals0' = signals
    /\ taken' = <<>>
    /\ used_desc_heads' = <<>>
    /\ pub' = 0
    /\ IF route(index, evset)[1] = "err"
       THEN /\ ret' = route(index, evset)[2]
            /\ UNCHANGED <<pc, cur>>
       ELSE /\ cur' = route(index, evset)[2]
            /\ IF mem_check(mem) # "ok"
               THEN /\ ret' = mem_check(mem)
                    /\ UNCHANGED pc
               ELSE /\ ret' = "pending"
                    /\ pc' = "pq_loop"
    /\ UNCHANGED <<mem, avail, used, signals, added>>
    /\ UNCHANGED <<avars, mvars>>

\* the outcomes of one chain: Reader::new / Writer::new fail (unwrap panics),
\* handle_message fails, or handle_message reports a byte count
ChainOutcomes ==
    {<<"BadChain", 0>>, <<"Err", 0>>} \cup {<<"Ok", t>> : t \in Totals}

\* where process_queue goes once the available ring presents no further
\* chain: the publishing loop if used_count > 0, else straight to Ok(())
after_loop(count) == IF count > 0 THEN "pq_add_used" ELSE "idle"

\* one evaluation of the while-let condition and one loop body
pq_loop ==
    /\ pc = "pq_loop"
    /\ IF avail[cur] = <<>>
       THEN /\ pc' = after_loop(used_count)
            /\ ret' = IF after_loop(used_count) = "idle" THEN "Ok_false" ELSE ret
            /\ UNCHANGED <<avail, used_desc_heads, taken>>
       ELSE /\ avail' = [avail EXCEPT ![cur] = Tail(@)]
            /\ taken' = Append(taken, Head(avail[cur]))
            /\ \E o \in ChainOutcomes :
                 CASE o[1] = "BadChain" ->
                        /\ pc' = "panicked"
                        /\ UNCHANGED <<ret, used_desc_heads>>
                   [] o[1] = "Err" ->
                        /\ pc' = "idle"
                        /\ ret' = "ProcessQueue"
                        /\ UNCHANGED used_desc_heads
                   [] OTHER ->
                        IF used_count >= QUEUE_SIZE
                        THEN /\ pc' = "panicked"
                             /\ UNCHANGED <<ret, used_desc_heads>>
                        ELSE /\ used_desc_heads' =
                                   Append(used_desc_heads, <<Head(avail[cur]), o[2]>>)
                             /\ UNCHANGED <<pc, ret>>
    /\ UNCHANGED <<mem, used, signals, cur, pub, call, used0, signals0, added>>
    /\ UNCHANGED <<avars, mvars>>

\* a publishing loop that signals the queue after every add_used
pq_add_used_signal_each ==
    /\ pc = "pq_add_used"
    /\ pub < used_count
    /\ used' = [used EXCEPT ![cur] =
                  add_used(@, used_desc_heads[pub + 1][1],
                           used_len(used_desc_heads[pub + 1]))]
    /\ signals' = [signals EXCEPT ![cur] = signal_used_queue(@)]
    /\ pub' = pub + 1
    /\ pc' = IF pub + 1 = used_count THEN "pq_signal" ELSE pc
    /\ UNCHANGED <<mem, avail, cur, used_desc_heads, ret, call,
                   taken, used0, signals0, added>>
    /\ UNCHANGED <<avars, mvars>>

\* one iteration of the for loop over used_desc_heads[..used_count]
pq_add_used ==
    /\ pc = "pq_add_used"
    /\ pub < used_count
    /\ used' = [used EXCEPT ![cur] =
                  add_used(@, used_desc_heads[pub + 1][1],
                           used_len(used_desc_heads[pub + 1]))]
    /\ pub' = pub + 1
    /\ pc' = IF pub + 1 = used_count THEN "pq_signal" ELSE pc
    /\ UNCHANGED <<mem, avail, signals, cur, used_desc_heads, ret, call,
                   taken, used0, signals0, added>>
    /\ UNCHANGED <<avars, mvars>>

\* vring.signal_used_queue().unwrap(), then Ok(()) and Ok(false)
pq_signal ==
    /\ pc = "pq_signal"
    /\ \E ok \in BOOLEAN :
         IF ok
         THEN /\ signals' = [signals EXCEPT ![cur] = signal_used_queue(@)]
              /\ pc' = "idle"
              /\ ret' = "Ok_false"
         ELSE /\ pc' = "panicked"
              /\ UNCHANGED <<signals, ret>>
    /\ UNCHANGED <<mem, avail, used, cur, used_desc_heads, pub, call, taken,
                   used0, signals0, added>>
    /\ UNCHANGED <<avars, mvars>>

(* ---------------- claims about the data plane ---------------- *)

\* the entries queue q gained on its used ring since the current call started
Gained(q) == SubSeq(used[q], Len(used0[q]) + 1, Len(used[q]))

\* number of positions of sequence s that hold x
Count(x, s) == Cardinality({i \in 1..Len(s) : s[i] = x})

\* the heads of a sequence of <<head, len>> entries
HeadsOf(s) == [i \in 1..Len(s) |-> s[i][1]]

\* handle_event has returned (the result of a finished call is in ret)
Returned == pc = "idle" /\ ret \notin {"none", "pending"}

\* a call that touched no queue: nothing taken, published or signalled
Untouched == taken = <<>> /\ used = used0 /\ signals = signals0

\* C1: a drain call whose message-server calls all succeed adds to the used
\* ring, in the order the chains were taken, one entry per chain carrying the
\* chain's head and the byte count the server returned for it.
C1_UsedCarriesServerCounts ==
    (Returned /\ ret = "Ok_false") =>
        /\ HeadsOf(used_desc_heads) = taken
        /\ Gained(cur) = used_desc_heads

\* C2: when the message server fails on a chain after earlier chains of the
\* same call succeeded, the entries recorded for the earlier chains are on
\* the used ring when the call returns the error.
C2_FlushBeforeError ==
    (Returned /\ ret = "ProcessQueue" /\ used_count >= 1) =>
        HeadsOf(Gained(cur)) = HeadsOf(used_desc_heads)

\* C3: a drain call that consumes at least one chain and succeeds signals
\* the queue exactly once and only after every entry of the batch is on the
\* used ring; a call that finds no chain publishes nothing and never signals.
C3_OneSignalAfterPublish ==
    /\ \A q \in Queues : signals[q] \in {signals0[q], signals0[q] + 1}
    /\ \A q \in Queues :
         signals[q] # signals0[q] =>
            /\ q = cur
            /\ used_count > 0
            /\ HeadsOf(Gained(q)) = HeadsOf(used_desc_heads)
    /\ (Returned /\ ret = "Ok_false" /\ taken # <<>>) =>
            signals[cur] = signals0[cur] + 1
    /\ (Returned /\ ret = "Ok_false" /\ taken = <<>>) =>
            (used = used0 /\ signals = signals0)

C3_Witness ==
    /\ Returned /\ ret = "Ok_false"
    /\ Len(taken) >= 2
    /\ Len(Gained(cur)) = Len(taken)
    /\ signals[cur] = signals0[cur] + 1

\* C4: when a drain call returns, with success or with an error, every head
\* it took from the available ring is on the used ring exactly once.
C4_EveryTakenHeadUsedOnce ==
    (Returned /\ ret \in {"Ok_false", "ProcessQueue"}) =>
        \A h \in Heads : Count(h, HeadsOf(Gained(cur))) = Count(h, taken)

\* C5: as long as no memory mapping is installed, a drain call returns
\* NoMemoryConfigured without panicking, takes no chain, invokes no message
\* server, publishes nothing and signals nothing.
C5_NoMemoryNoEffect ==
    ~mem =>
        /\ pc = "idle"
        /\ taken = <<>> /\ used_desc_heads = <<>>
        /\ Len(avail[0]) + Len(avail[1]) = added
        /\ \A q \in Queues : used[q] = <<>> /\ signals[q] = 0
        /\ (ret # "none" /\ call.evset = EPOLLIN /\ call.index \in Queues)
              => ret = "NoMemoryConfigured"

C5_Witness ==
    /\ ~mem
    /\ ret = "NoMemoryConfigured"
    /\ avail[cur] # <<>>

\* C6: with readiness EPOLLIN, index 0 drains the high-priority queue, an
\* index from 1 up to the number of vrings drains that request queue, every
\* other index (the exit index 2 included) returns HandleEventUnknownEvent
\* and drains nothing; a successful call returns false.
C6_Routing ==
    /\ ret # "Ok_true"
    /\ \A q \in Queues :
         q # cur => (used[q] = used0[q] /\ signals[q] = signals0[q])
    /\ (ret # "none" /\ call.evset = EPOLLIN) =>
         IF call.index = 0
         THEN cur = 0 /\ ret # "HandleEventUnknownEvent"
         ELSE IF call.index >= 1 /\ call.index < NumVrings
         THEN cur = call.index /\ ret # "HandleEventUnknownEvent"
         ELSE pc = "idle" /\ ret = "HandleEventUnknownEvent" /\ Untouched
    /\ (Returned /\ ret = "Ok_false") =>
         (call.evset = EPOLLIN /\ call.index = cur)

C6_Witness ==
    /\ mem
    /\ call.index = KILL_EVENT /\ call.evset = EPOLLIN
    /\ ret = "HandleEventUnknownEvent"
    /\ used[0] # <<>> /\ used[1] # <<>>
    /\ avail[0] # <<>>

\* C7 as stated: a readiness without the readable condition is rejected with
\* HandleEventNotEpollIn and leaves the queues untouched, and a readiness
\* with the readable condition is never rejected for its readiness.
C7_ReadableNeverRejected ==
    ret # "none" =>
        /\ call.evset % 2 = 0 =>
              (pc = "idle" /\ ret = "HandleEventNotEpollIn" /\ Untouched)
        /\ call.evset % 2 = 1 => ret # "HandleEventNotEpollIn"

\* C7 amended: exactly the readiness EPOLLIN is accepted; every other event
\* set, also one that contains EPOLLIN beside another flag, is rejected with
\* HandleEventNotEpollIn for every index and leaves the queues untouched.
C7_OnlyExactEpollIn ==
    ret # "none" =>
        /\ call.evset # EPOLLIN =>
              (pc = "idle" /\ ret = "HandleEventNotEpollIn" /\ Untouched)
        /\ call.evset = EPOLLIN => ret # "HandleEventNotEpollIn"

C7_Witness ==
    /\ mem
    /\ call.evset = EPOLLIN + 2
    /\ ret = "HandleEventNotEpollIn"
    /\ avail[0] # <<>> /\ avail[1] # <<>>
    /\ used[0] # <<>>

(* C20: in every drain, however many chains the available ring presents,
   used_count is a valid index of the batch array (below QUEUE_SIZE) whenever
   the loop is about to take a chain and store its entry, the batch never
   holds more than QUEUE_SIZE entries, and the drain does not fail on the
   batch index. *)
C20_BatchIndexValid ==
    /\ (pc = "pq_loop" /\ avail[cur] # <<>>) => used_count < QUEUE_SIZE
    /\ used_count <= QUEUE_SIZE
    /\ pc = "panicked" => used_count < QUEUE_SIZE

(* ---------------- admin control plane ---------------- *)

\* the image sources a mount request can name: a path that cannot be opened,
\* a file that Rafs::import rejects, and a good metadata file
Sources == {"missing", "corrupt", "meta"}
Mountpoints == {"/", "/layer1"}

\* ApiRequest::DaemonInfo(sender) and ApiRequest::Mount(info, sender); sender
\* is the reply channel, rx tells whether its receiver still exists when the
\* reply is sent
Requests(id) ==
    [id : {id}, kind : {"DaemonInfo"}, source : {"none"}, mountpoint : {"none"},
     sender : {id}, rx : BOOLEAN]
    \cup
    [id : {id}, kind : {"Mount"}, source : Sources, mountpoint : Mountpoints,
     sender : {id}, rx : BOOLEAN]

NoRequest ==
    [id |-> 0, kind |-> "none", source |-> "none", mountpoint |-> "none",
     sender |-> 0, rx |-> FALSE]

\* Vfs::mount(fs, path): binds the instance to the path, or fails when the
\* path is occupied; the result and the mount table after the call
Vfs_mount(table, fs, path) ==
    IF \E m \in table : m[1] = path
    THEN <<"Err", table>>
    ELSE <<"Ok", table \cup {<<path, fs>>}>>

\* the error Vfs::mount reports for a path that is occupied
Vfs_mount_error == "MountpointOccupied"

\* File::open(&info.source)
File_open(source) == IF source = "missing" THEN "NotFound" ELSE "Ok"

\* rafs.import(&mut file)
Rafs_import(source) == IF source = "corrupt" THEN "ImportError" ELSE "Ok"

\* a mount closure that reports success whatever vfs.mount returned
mounter_ignores_mount_error(req, table) ==
    IF File_open(req.source) # "Ok"
    THEN <<[tag |-> "MountFailure", err |-> File_open(req.source)], table>>
    ELSE IF Rafs_import(req.source) # "Ok"
    THEN <<[tag |-> "MountFailure", err |-> Rafs_import(req.source)], table>>
    ELSE <<[tag |-> "Mount", err |-> "none"],
           Vfs_mount(table, req.id, req.mountpoint)[2]>>

\* the mount closure main hands to start_api_server: the reply payload and
\* the mount table after the call; the instance of a request is named by
\* the request's number
mounter(req, table) ==
    IF File_open(req.source) # "Ok"
    THEN <<[tag |-> "MountFailure", err |-> File_open(req.source)], table>>
    ELSE IF Rafs_import(req.source) # "Ok"
    THEN <<[tag |-> "MountFailure", err |-> Rafs_import(req.source)], table>>
    ELSE IF Vfs_mount(table, req.id, req.mountpoint)[1] = "Ok"
    THEN <<[tag |-> "Mount", err |-> "none"],
           Vfs_mount(table, req.id, req.mountpoint)[2]>>
    ELSE <<[tag |-> "MountFailure", err |-> "InvalidData"],
           Vfs_mount(table, req.id, req.mountpoint)[2]>>

\* the reply to ApiRequest::DaemonInfo
DaemonInfo == [tag |-> "DaemonInfo", err |-> "none", state |-> "Running"]

\* the mount request control_loop has received and not yet answered (its
\* number), 0 when no mount is being executed
in_flight ==
    IF api_pc = "dispatch" /\ api_req.kind = "Mount" THEN api_req.id ELSE 0

\* the HTTP thread passes one request on: api_sender.send, api_evt.write(1)
http_submit(req) ==
    /\ api_sender_open
    /\ next_id <= MaxReqs
    /\ req.id = next_id
    /\ next_id' = next_id + 1
    /\ api_chan' = Append(api_chan, req)
    /\ api_evt' = api_evt + 1
    /\ issued_in' = Append(issued_in, in_flight)
    /\ UNCHANGED <<api_sender_open, api_pc, api_ret, api_req, replies, mounts,
                   eintr, woke_after>>
    /\ UNCHANGED <<qvars, mvars>>

\* the HTTP thread ends and drops api_sender
http_exit ==
    /\ api_sender_open
    /\ api_sender_open' = FALSE
    /\ UNCHANGED <<api_evt, api_chan, api_pc, api_ret, api_req, replies, mounts,
                   next_id, eintr, woke_after, issued_in>>
    /\ UNCHANGED <<qvars, mvars>>

\* a loop that returns the error of an interrupted wait like any other
epoll_wait_no_retry ==
    /\ api_pc = "epoll_wait"
    /\ \E r \in {"Interrupted", "Failed", "Ready"} :
         CASE r = "Interrupted" ->
                /\ eintr < MaxEintr
                /\ eintr' = eintr + 1
                /\ api_pc' = "returned"
                /\ api_ret' = "Interrupted"
                /\ UNCHANGED woke_after
           [] r = "Failed" ->
                /\ api_pc' = "returned"
                /\ api_ret' = "EpollError"
                /\ UNCHANGED <<eintr, woke_after>>
           [] r = "Ready" ->
                /\ api_evt > 0
                /\ api_pc' = "api_evt_read"
                /\ eintr' = 0
                /\ woke_after' = eintr
                /\ UNCHANGED api_ret
    /\ UNCHANGED <<api_evt, api_chan, api_sender_open, api_req, replies, mounts,
                   next_id, issued_in>>
    /\ UNCHANGED <<qvars, mvars>>

\* epoll::wait returns: interrupted (retry), failed (return the error), or
\* with the event of api_evt, which is readable while its counter is not 0
epoll_wait ==
    /\ api_pc = "epoll_wait"
    /\ \E r \in {"Interrupted", "Failed", "Ready"} :
         CASE r = "Interrupted" ->
                /\ eintr < MaxEintr
                /\ eintr' = eintr + 1
                /\ UNCHANGED <<api_pc, api_ret, woke_after>>
           [] r = "Failed" ->
                /\ api_pc' = "returned"
                /\ api_ret' = "EpollError"
                /\ UNCHANGED <<eintr, woke_after>>
           [] r = "Ready" ->
                /\ api_evt > 0
                /\ api_pc' = "api_evt_read"
                /\ eintr' = 0
                /\ woke_after' = eintr
                /\ UNCHANGED api_ret
    /\ UNCHANGED <<api_evt, api_chan, api_sender_open, api_req, replies, mounts,
                   next_id, issued_in>>
    /\ UNCHANGED <<qvars, mvars>>

\* self.api_evt.read()?: returns the counter and resets it to 0; fails on a
\* counter that is 0 (the eventfd is non-blocking)
api_evt_read ==
    /\ api_pc = "api_evt_read"
    /\ IF api_evt = 0
       THEN /\ api_pc' = "returned"
            /\ api_ret' = "WouldBlock"
            /\ UNCHANGED api_evt
       ELSE /\ api_evt' = 0
            /\ api_pc' = "recv"
            /\ UNCHANGED api_ret
    /\ UNCHANGED <<api_chan, api_sender_open, api_req, replies, mounts, next_id,
                   eintr, woke_after, issued_in>>
    /\ UNCHANGED <<qvars, mvars>>

\* a receive that takes the request sent last
recv_newest(chan) == <<chan[Len(chan)], SubSeq(chan, 1, Len(chan) - 1)>>

\* Receiver::recv on a channel that holds a request: the request sent first
\* and the rest of the channel
recv(chan) == <<Head(chan), Tail(chan)>>

\* api_receiver.recv(): blocks on an empty channel while a sender exists,
\* fails with BrokenPipe once the sender is gone
api_recv ==
    /\ api_pc = "recv"
    /\ IF api_chan # <<>>
       THEN /\ api_req' = recv(api_chan)[1]
            /\ api_chan' = recv(api_chan)[2]
            /\ api_pc' = "dispatch"
            /\ UNCHANGED api_ret
       ELSE /\ ~api_sender_open
            /\ api_pc' = "returned"
            /\ api_ret' = "BrokenPipe"
            /\ UNCHANGED <<api_req, api_chan>>
    /\ UNCHANGED <<api_evt, api_sender_open, replies, mounts, next_id, eintr,
                   woke_after, issued_in>>
    /\ UNCHANGED <<qvars, mvars>>

\* a control loop that gives up when the mount closure returns an error
after_send_fatal_mount_error(req, payload) ==
    IF req.rx /\ payload.tag # "MountFailure"
    THEN <<"epoll_wait", "none">>
    ELSE <<"returned", "BrokenPipe">>

\* a control loop that shrugs off a reply it could not send
after_send_ignores_broken_pipe(req, payload) == <<"epoll_wait", "none">>

\* sender.send(..).map_err(BrokenPipe)?: where control_loop goes after the
\* send and what it returns
after_send(req, payload) ==
    IF req.rx THEN <<"epoll_wait", "none">> ELSE <<"returned", "BrokenPipe">>

\* the RwLock around the backend (fs_backend): handle_event takes &mut self,
\* so the worker runs it under the write lock, from the call to its return; a
\* worker that panicked inside has left the lock poisoned
backend_lock ==
    CASE pc \in {"pq_loop", "pq_add_used", "pq_signal"} -> "worker"
      [] pc = "panicked" -> "poisoned"
      [] OTHER -> "free"

\* the mount closure gets as far as backend.write() (line 458): source opened
\* and image imported
reaches_backend_write(req) ==
    /\ req.kind = "Mount"
    /\ File_open(req.source) = "Ok"
    /\ Rafs_import(req.source) = "Ok"

\* a loop that hands a mount over and serves a queued status query meanwhile
api_dispatch_status_first ==
    /\ api_pc = "dispatch"
    /\ IF /\ api_req.kind = "Mount"
          /\ api_chan # <<>>
          /\ Head(api_chan).kind = "DaemonInfo"
          /\ Head(api_chan).rx
       THEN /\ replies' = Append(replies, [req |-> Head(api_chan),
                                           chan |-> Head(api_chan).sender,
                                           payload |-> DaemonInfo])
            /\ api_chan' = Tail(api_chan)
            /\ UNCHANGED <<mounts, api_pc, api_ret>>
       ELSE LET res == IF api_req.kind = "DaemonInfo"
                       THEN <<DaemonInfo, mounts>>
                       ELSE mounter(api_req, mounts)
            IN /\ mounts' = res[2]
               /\ replies' = IF api_req.rx
                             THEN Append(replies, [req |-> api_req,
                                                   chan |-> api_req.sender,
                                                   payload |-> res[1]])
                             ELSE replies
               /\ api_pc' = after_send(api_req, res[1])[1]
               /\ api_ret' = after_send(api_req, res[1])[2]
               /\ UNCHANGED api_chan
    /\ UNCHANGED <<api_evt, api_sender_open, api_req, next_id, eintr,
                   woke_after, issued_in>>
    /\ UNCHANGED <<qvars, mvars>>

\* the match on api_request: build the reply (running the mount closure for
\* a mount request, on the loop's own thread and to its end) and send it on
\* the request's reply channel. The closure's backend.write().unwrap() waits
\* while a worker holds the backend lock and panics on a poisoned lock
api_dispatch ==
    /\ api_pc = "dispatch"
    /\ reaches_backend_write(api_req) => backend_lock # "worker"
    /\ IF reaches_backend_write(api_req) /\ backend_lock = "poisoned"
       THEN /\ api_pc' = "panicked"
            /\ UNCHANGED <<mounts, replies, api_ret>>
       ELSE LET res == IF api_req.kind = "DaemonInfo"
                       THEN <<DaemonInfo, mounts>>
                       ELSE mounter(api_req, mounts)
            IN /\ mounts' = res[2]
               /\ replies' = IF api_req.rx
                             THEN Append(replies, [req |-> api_req,
                                                   chan |-> api_req.sender,
                                                   payload |-> res[1]])
                             ELSE replies
               /\ api_pc' = after_send(api_req, res[1])[1]
               /\ api_ret' = after_send(api_req, res[1])[2]
    /\ UNCHANGED <<api_evt, api_chan, api_sender_open, api_req, next_id, eintr,
                   woke_after, issued_in>>
    /\ UNCHANGED <<qvars, mvars>>

(* ---------------- claims about the admin control plane ---------------- *)

\* the step in which control_loop answers (or fails to answer) api_req
DispatchStep == api_pc = "dispatch" /\ api_pc' # "dispatch"

\* some instance is bound to the path
Occupied(path) == \E m \in mounts : m[1] = path

\* the last reply sent
LastReply(log) == log[Len(log)]

\* C8: a mount request for a mount point that already has an instance bound
\* is answered with a mount failure and leaves the mount table as it is; of
\* two mount requests for one mount point the second fails once the first
\* has succeeded, the first mount stays in place, and no path ever has two
\* instances bound to it.
C8_OccupiedMountRejected ==
    /\ [][(DispatchStep /\ api_req.kind = "Mount" /\ Occupied(api_req.mountpoint))
            => /\ mounts' = mounts
               /\ api_req.rx =>
                    /\ Len(replies') = Len(replies) + 1
                    /\ LastReply(replies').req = api_req
                    /\ LastReply(replies').payload.tag = "MountFailure"]_vars
    /\ [][(DispatchStep /\ api_req.kind = "Mount" /\ api_req.source = "meta"
              /\ ~Occupied(api_req.mountpoint))
            => /\ mounts' = mounts \cup {<<api_req.mountpoint, api_req.id>>}
               /\ api_req.rx => LastReply(replies').payload.tag = "Mount"]_vars
    /\ [](\A m1, m2 \in mounts : m1[1] = m2[1] => m1 = m2)
    /\ [](\A i \in 1..Len(replies) :
            replies[i].payload.tag = "Mount" =>
               /\ <<replies[i].req.mountpoint, replies[i].req.id>> \in mounts
               /\ \A j \in (i + 1)..Len(replies) :
                    (replies[j].req.kind = "Mount"
                       /\ replies[j].req.mountpoint = replies[i].req.mountpoint)
                    => replies[j].payload.tag = "MountFailure")
    /\ [](\A i \in 1..Len(replies) :
            (replies[i].req.kind = "Mount" /\ replies[i].req.source = "meta"
               /\ replies[i].payload.tag = "MountFailure")
            => \E m \in mounts : /\ m[1] = replies[i].req.mountpoint
                                 /\ m[2] < replies[i].req.id)

C8_Witness ==
    /\ Len(replies) >= 2
    /\ replies[1].req.mountpoint = "/layer1"
    /\ replies[1].payload.tag = "Mount"
    /\ replies[2].req.mountpoint = "/layer1"
    /\ replies[2].req.source = "meta"
    /\ replies[2].payload.tag = "MountFailure"
    /\ <<"/layer1", 1>> \in mounts

\* the mount request cannot succeed on this mount table
MountFails(req, table) ==
    /\ req.kind = "Mount"
    /\ \/ req.source # "meta"
       \/ \E m \in table : m[1] = req.mountpoint

\* C9: a mount request that fails (open, import or mount) is answered with
\* an error on its own reply channel and ends no thread: control_loop goes
\* back to waiting, it returns only for a failed wait or a broken channel,
\* and every status query answered afterwards reports "Running".
C9_MountFailureNotFatal ==
    /\ [][(DispatchStep /\ MountFails(api_req, mounts) /\ api_req.rx)
            => /\ api_pc' = "epoll_wait"
               /\ api_ret' = "none"
               /\ Len(replies') = Len(replies) + 1
               /\ LastReply(replies').req = api_req
               /\ LastReply(replies').chan = api_req.sender
               /\ LastReply(replies').payload.tag = "MountFailure"]_vars
    /\ [](api_pc = "returned" =>
            \/ api_ret \in {"EpollError", "WouldBlock"}
            \/ api_ret = "BrokenPipe" /\ api_req.id > 0 /\ ~api_req.rx
            \/ api_ret = "BrokenPipe" /\ ~api_sender_open /\ api_chan = <<>>)
    /\ [](api_pc # "returned" => api_ret = "none")
    /\ [](\A i \in 1..Len(replies) :
            replies[i].req.kind = "DaemonInfo" =>
               (replies[i].payload.tag = "DaemonInfo"
                  /\ replies[i].payload.state = "Running"))

C9_Witness ==
    /\ api_pc = "epoll_wait"
    /\ Len(replies) = 2
    /\ replies[1].payload.tag = "MountFailure"
    /\ replies[1].payload.err = "InvalidData"
    /\ replies[2].req.kind = "DaemonInfo"
    /\ replies[2].payload.state = "Running"

\* C10: control_loop answers the requests in the order they were put on the
\* channel: the k-th reply answers the k-th request, is sent on that
\* request's reply channel, and no request is answered twice or skipped.
C10_FifoReplies ==
    /\ [](\A i \in 1..Len(replies) :
            /\ replies[i].req.id = i
            /\ replies[i].chan = replies[i].req.sender
            /\ \A j \in (i + 1)..Len(replies) :
                 /\ replies[i].req.id < replies[j].req.id
                 /\ replies[i].chan # replies[j].chan)
    /\ [](api_req.id \in {Len(replies), Len(replies) + 1})
    /\ [](\A i \in 1..Len(api_chan) :
            api_chan[i].id = api_req.id + i)
    /\ [][(DispatchStep /\ api_req.rx)
            => replies' = Append(replies, LastReply(replies'))]_vars

C10_Witness ==
    /\ Len(replies) = 2
    /\ api_evt = 0
    /\ replies[1].req.kind = "Mount"
    /\ replies[1].chan = 1
    /\ replies[2].req.kind = "DaemonInfo"
    /\ replies[2].chan = 2

(* C11: the original statement. A status query issued while a mount is being
   executed is answered without waiting for that mount: whenever a mount is in
   flight and such a query is queued, control_loop has a step that leaves the
   mount in flight, that is, it can go on to the query before the mount has
   completed. *)
StatusQueuedDuringMount ==
    /\ in_flight # 0
    /\ \E k \in 1..Len(api_chan) :
          /\ api_chan[k].kind = "DaemonInfo"
          /\ issued_in[api_chan[k].id] = in_flight

ControlLoopStep == epoll_wait \/ api_evt_read \/ api_recv \/ api_dispatch

C11_StatusNotBlockedByMount ==
    StatusQueuedDuringMount =>
        ENABLED (ControlLoopStep /\ api_pc' = "dispatch" /\ api_req' = api_req)

\* the position in the reply log of the reply to request id, 0 if none
ReplyIndex(id) ==
    IF \E i \in 1..Len(replies) : replies[i].req.id = id
    THEN CHOOSE i \in 1..Len(replies) : replies[i].req.id = id
    ELSE 0

(* C11, amended: a status query issued while a mount is being executed is
   answered only after that mount has completed. While the mount is in flight
   the only reply the loop can send is the mount's own, and every reply to a
   status query issued during a mount comes after the reply to that mount in
   the log. *)
C11_StatusAfterMount ==
    /\ [][(in_flight # 0 /\ replies' # replies)
            => /\ LastReply(replies').req = api_req
               /\ api_pc' # "dispatch"]_vars
    /\ [](\A i \in 1..Len(replies) :
            (/\ replies[i].req.kind = "DaemonInfo"
             /\ issued_in[replies[i].req.id] # 0)
            => /\ ReplyIndex(issued_in[replies[i].req.id]) # 0
               /\ ReplyIndex(issued_in[replies[i].req.id]) < i)

\* a status query was issued while mount 1 was in flight, and both are answered
C11_Witness ==
    /\ Len(replies) = 2
    /\ replies[1].req.kind = "Mount"
    /\ replies[2].req.kind = "DaemonInfo"
    /\ issued_in[replies[2].req.id] = replies[1].req.id

\* the step in which epoll::wait returns interrupted
InterruptedStep == api_pc = "epoll_wait" /\ eintr' = eintr + 1

(* C12: an interrupted polling wait, however many in a row, makes control_loop
   return no error and handle nothing: the loop is waiting again with the
   eventfd, the channel, the reply log and the mount table as they were. After
   any number of interruptions a pending wake-up is still delivered, by the
   wait that follows them, and it is the only way on to reading the eventfd. *)
C12_EintrRetried ==
    /\ [][InterruptedStep
            => /\ api_pc' = "epoll_wait"
               /\ api_ret' = "none"
               /\ UNCHANGED <<api_evt, api_chan, api_req, replies, mounts>>]_vars
    /\ [](api_ret # "Interrupted")
    /\ []((api_pc = "epoll_wait" /\ api_evt > 0)
            => ENABLED (epoll_wait /\ api_pc' = "api_evt_read"
                                   /\ woke_after' = eintr))
    /\ [][(api_pc = "epoll_wait" /\ api_pc' = "api_evt_read")
            => api_evt > 0 /\ woke_after' = eintr /\ eintr' = 0]_vars

\* two interruptions, then the real event on the third wait, and the request
\* it announced has been answered
C12_Witness ==
    /\ woke_after = 2
    /\ api_pc = "epoll_wait"
    /\ Len(replies) = 1
    /\ api_chan = <<>>
    /\ api_ret = "none"

\* the error of the step at which the mount of req fails: File::open,
\* Rafs::import or Vfs::mount
underlying_error(req, table) ==
    IF File_open(req.source) # "Ok" THEN File_open(req.source)
    ELSE IF Rafs_import(req.source) # "Ok" THEN Rafs_import(req.source)
    ELSE Vfs_mount_error

(* C17: the reply to a mount request that fails carries MountFailure around
   the error of the step that failed, be it the open, the import or the
   mount, and what control_loop sends is the mount handler's result as it
   is. *)
C17_FailureWrapsUnderlying ==
    /\ [][(DispatchStep /\ api_req.kind = "Mount" /\ api_req.rx)
            => LastReply(replies').payload = mounter(api_req, mounts)[1]]_vars
    /\ [][(DispatchStep /\ MountFails(api_req, mounts) /\ api_req.rx)
            => LastReply(replies').payload =
                 [tag |-> "MountFailure",
                  err |-> underlying_error(api_req, mounts)]]_vars

(* C18: a request that was put on the channel and announced on the eventfd
   is received and answered without a later, unrelated wake-up, also when
   several requests were announced before the loop read the eventfd: whenever
   control_loop is back at its wait with a request still queued, the eventfd
   is readable, so the wait returns for that request. *)
C18_NoRequestStranded ==
    (api_pc = "epoll_wait" /\ api_chan # <<>>) => api_evt > 0

(* ---------------- process lifecycle (main) ---------------- *)

\* the values of --metadata: not given, or a path to one kind of file
Metadatas == {""} \cup Sources

\* main ends: the exit status and the way it ended
main_ends(how, code) ==
    /\ m_pc' = how
    /\ exit_code' = code

\* lines 376-435: arguments, configuration, Vfs::new and
\* VhostUserFsBackend::new(vfs).unwrap(); an .expect or .unwrap that fails
\* panics (exit status 101)
main_setup ==
    /\ m_pc = "setup"
    /\ \E ok \in BOOLEAN :
         IF ok THEN m_pc' = "initial_mount" /\ UNCHANGED exit_code
               ELSE main_ends("panicked", 101)
    /\ UNCHANGED <<metadata, apisock, api_sock_open, vhost_sock_open,
                   wait_result, kill_writes, events, first_seen>>
    /\ UNCHANGED <<qvars, avars>>

\* a main that goes on when the initial image cannot be opened or imported
initial_mount_ignores_errors(path, table) ==
    IF File_open(path) # "Ok" \/ Rafs_import(path) # "Ok"
    THEN <<"Ok", table>>
    ELSE IF Vfs_mount(table, 0, "/")[1] # "Ok"
         THEN <<"Panic", table>>
         ELSE <<"Ok", Vfs_mount(table, 0, "/")[2]>>

\* lines 438-444: File::open(metadata)?, rafs.import(&mut file)?,
\* fs.mount(rafs, "/").unwrap(); the result and the mount table afterwards
initial_mount(path, table) ==
    IF File_open(path) # "Ok" \/ Rafs_import(path) # "Ok"
    THEN <<"Err", table>>
    ELSE IF Vfs_mount(table, 0, "/")[1] # "Ok"
         THEN <<"Panic", table>>
         ELSE <<"Ok", Vfs_mount(table, 0, "/")[2]>>

\* lines 437-445: the initial image, when --metadata is given
main_mount_initial ==
    /\ m_pc = "initial_mount"
    /\ IF metadata = ""
       THEN m_pc' = "start_api" /\ UNCHANGED <<exit_code, mounts>>
       ELSE LET res == initial_mount(metadata, mounts)
            IN /\ mounts' = res[2]
               /\ CASE res[1] = "Ok" ->
                         m_pc' = "start_api" /\ UNCHANGED exit_code
                    [] res[1] = "Err" -> main_ends("returned_err", 1)
                    [] res[1] = "Panic" -> main_ends("panicked", 101)
    /\ UNCHANGED <<metadata, apisock, api_sock_open, vhost_sock_open,
                   wait_result, kill_writes, events, first_seen>>
    /\ UNCHANGED qvars
    /\ UNCHANGED <<api_evt, api_chan, api_sender_open, api_pc, api_ret, api_req,
                   replies, next_id, eintr, woke_after, issued_in>>

\* lines 447-472: start_api_server(..)? when --apisock is given: the
\* api_handler thread starts in control_loop and the admin socket is opened,
\* or main returns the error
main_start_api ==
    /\ m_pc = "start_api"
    /\ IF ~apisock
       THEN /\ m_pc' = "daemon_start"
            /\ UNCHANGED <<exit_code, api_sock_open, api_pc>>
       ELSE \E ok \in BOOLEAN :
              IF ok THEN /\ m_pc' = "daemon_start"
                         /\ api_sock_open' = TRUE
                         /\ api_pc' = "epoll_wait"
                         /\ UNCHANGED exit_code
                    ELSE /\ main_ends("returned_err", 1)
                         /\ UNCHANGED <<api_sock_open, api_pc>>
    /\ UNCHANGED <<metadata, apisock, vhost_sock_open, wait_result,
                   kill_writes, events, first_seen>>
    /\ UNCHANGED qvars
    /\ UNCHANGED <<api_evt, api_chan, api_sender_open, api_ret, api_req,
                   replies, mounts, next_id, eintr, woke_after, issued_in>>

\* lines 474-485: VhostUserDaemon::new(..).unwrap() and daemon.start(); a
\* daemon that fails to start ends the process with process::exit(1)
main_daemon_start ==
    /\ m_pc = "daemon_start"
    /\ \E r \in {"NewFailed", "StartFailed", "Ok"} :
         CASE r = "NewFailed" ->
                main_ends("panicked", 101) /\ UNCHANGED vhost_sock_open
           [] r = "StartFailed" ->
                main_ends("process_exit", 1) /\ UNCHANGED vhost_sock_open
           [] r = "Ok" ->
                /\ m_pc' = "daemon_wait"
                /\ vhost_sock_open' = TRUE
                /\ UNCHANGED exit_code
    /\ UNCHANGED <<metadata, apisock, api_sock_open, wait_result, kill_writes,
                   events, first_seen>>
    /\ UNCHANGED <<qvars, avars>>

\* a worker of the running daemon handles a queue event (handle_event, lines
\* 344-369, under the write lock of the backend); it either returns or
\* panics on one of the unwraps of process_queue (lines 298-299, 314)
daemon_event ==
    /\ m_pc = "daemon_wait"
    /\ pc = "idle"
    /\ events < MaxEvents
    /\ events' = events + 1
    /\ first_seen' = IF events > 0 THEN first_seen
                     ELSE IF \E m \in mounts : m[1] = "/"
                          THEN "mounted" ELSE "empty"
    /\ \E panics \in BOOLEAN :
         pc' = IF panics THEN "panicked" ELSE "idle"
    /\ UNCHANGED <<mem, avail, used, signals, cur, used_desc_heads, pub, ret,
                   call, taken, used0, signals0, added>>
    /\ UNCHANGED <<m_pc, metadata, apisock, api_sock_open, vhost_sock_open,
                   wait_result, kill_writes, exit_code>>
    /\ UNCHANGED avars

\* lines 487-489: daemon.wait() returns; an error is logged
main_daemon_wait ==
    /\ m_pc = "daemon_wait"
    /\ \E r \in {"Ok", "Err"} : wait_result' = r
    /\ m_pc' = "kill"
    /\ UNCHANGED <<metadata, apisock, api_sock_open, vhost_sock_open,
                   kill_writes, exit_code, events, first_seen>>
    /\ UNCHANGED <<qvars, avars>>

\* lines 487-497: how main ends after daemon.wait(): its error is only
\* logged, main returns Ok(())
after_wait(result) == <<"returned_ok", 0>>

\* lines 491-497: fs_backend.read().unwrap().kill_evt.write(1), its error
\* only logged, then Ok(()); the unwrap panics on a poisoned lock
main_kill ==
    /\ m_pc = "kill"
    /\ IF backend_lock = "poisoned"
       THEN main_ends("panicked", 101) /\ UNCHANGED kill_writes
       ELSE /\ kill_writes' = kill_writes + 1
            /\ main_ends(after_wait(wait_result)[1], after_wait(wait_result)[2])
    /\ UNCHANGED <<metadata, apisock, api_sock_open, vhost_sock_open,
                   wait_result, events, first_seen>>
    /\ UNCHANGED <<qvars, avars>>

(* ---------------- claims about the process lifecycle ---------------- *)

\* main has ended
Ended == exit_code # -1

(* C14: in every lifecycle that ends by a daemon that failed to start, by a
   run error of the daemon or by its normal termination, kill_evt has been
   written exactly once, and it is never written before daemon.wait() has
   returned. *)
C14_KillSignalledOnce ==
    /\ (Ended /\ (m_pc = "process_exit" \/ wait_result # "none"))
         => kill_writes = 1
    /\ kill_writes > 0 => wait_result # "none"
    /\ kill_writes <= 1

\* startup failed, the daemon failed to start, or daemon.wait() reported an
\* error
FailedRun ==
    \/ m_pc \in {"panicked", "returned_err", "process_exit"}
    \/ wait_result = "Err"

(* C15: when the process has ended, its exit status is non-zero exactly if
   startup failed, the daemon failed to start or daemon.wait() reported an
   error, and zero in every other case. *)
C15_ExitStatusTellsFailure ==
    Ended => (exit_code # 0 <=> FailedRun)

(* C16: with --metadata given, the image is mounted at "/" before the admin
   socket, the api_handler thread and the vhost-user socket exist, so the
   first queue event handled finds the mount; and when the image cannot be
   opened or imported main ends with an error, exit status 1, with neither
   socket opened and no api_handler thread started. *)
C16_InitialMountFirst ==
    /\ (metadata # ""
         /\ (api_sock_open \/ vhost_sock_open \/ api_pc # "unstarted"))
         => <<"/", 0>> \in mounts
    /\ (metadata # "" /\ first_seen # "none") => first_seen = "mounted"
    /\ (metadata \in {"missing", "corrupt"}
         /\ m_pc \notin {"setup", "initial_mount", "panicked"})
         => /\ m_pc = "returned_err"
            /\ exit_code = 1
            /\ mounts = {}
    /\ metadata \in {"missing", "corrupt"}
         => /\ ~api_sock_open
            /\ ~vhost_sock_open
            /\ api_pc = "unstarted"

\* the image was given and mounted, both sockets are open, and a queue event
\* has been handled
C16_Witness ==
    /\ metadata = "meta"
    /\ api_sock_open
    /\ vhost_sock_open
    /\ first_seen = "mounted"

(* ---------------- claims about both planes ---------------- *)

\* the step in which control_loop returns
ReturnStep == api_pc # "returned" /\ api_pc' = "returned"

(* C19: a broken admin channel ends control_loop and nothing else. A reply
   (to a status query or to a mount) whose receiver is gone, and a receive
   from a channel that is empty and closed, make control_loop return
   BrokenPipe; once it has returned it receives, executes and answers nothing
   more; the returning step touches neither the data plane nor main, and
   afterwards a queue event can still be handled and main can still see the
   daemon end. *)
C19_BrokenChannelEndsOnlyLoop ==
    /\ [][(DispatchStep /\ ~api_req.rx)
            => /\ api_pc' = "returned"
               /\ api_ret' = "BrokenPipe"
               /\ replies' = replies]_vars
    /\ [][(api_pc = "recv" /\ api_chan = <<>> /\ api_pc' # "recv")
            => /\ ~api_sender_open
               /\ api_pc' = "returned"
               /\ api_ret' = "BrokenPipe"]_vars
    /\ [][api_pc = "returned"
            => /\ api_pc' = "returned"
               /\ UNCHANGED <<api_ret, api_req, replies, mounts>>
               /\ Len(api_chan') >= Len(api_chan)]_vars
    /\ [][ReturnStep => UNCHANGED <<qvars, mvars>>]_vars
    /\ [](api_pc = "returned"
            => /\ ENABLED handle_event(HIPRIO_QUEUE_EVENT, EPOLLIN)
               /\ ENABLED main_daemon_wait)

\* a mount was executed, its reply could not be sent, control_loop returned
\* BrokenPipe and a request submitted since then is left in the channel
C19_Witness ==
    /\ api_pc = "returned"
    /\ api_ret = "BrokenPipe"
    /\ api_req.kind = "Mount"
    /\ ~api_req.rx
    /\ api_chan # <<>>
    /\ replies = <<>>

(* C13: the admin thread shares no lock with the data plane but the mount
   table's own, so a received request is never made to wait for a queue event
   that is being handled: whenever control_loop holds a request to execute,
   its step is enabled, whatever the worker is doing. *)
C13_OnlyMountTableLock ==
    api_pc = "dispatch" => ENABLED api_dispatch

(* ---------------- initial state and specifications ---------------- *)

\* the state main leaves behind when it starts the api server and the
\* daemon: a backend without memory (VhostUserFsBackend::new), empty rings,
\* an api_handler thread about to wait, and a mount table that is empty or
\* holds the initial image (instance 0) at "/" when --metadata was given
Init ==
    /\ mem = FALSE
    /\ avail = [q \in Queues |-> <<>>]
    /\ used = [q \in Queues |-> <<>>]
    /\ signals = [q \in Queues |-> 0]
    /\ pc = "idle"
    /\ cur = 0
    /\ used_desc_heads = <<>>
    /\ pub = 0
    /\ ret = "none"
    /\ call = [index |-> 0, evset |-> 0]
    /\ taken = <<>>
    /\ used0 = [q \in Queues |-> <<>>]
    /\ signals0 = [q \in Queues |-> 0]
    /\ added = 0
    /\ api_evt = 0
    /\ api_chan = <<>>
    /\ api_sender_open = TRUE
    /\ api_pc = "epoll_wait"
    /\ api_ret = "none"
    /\ api_req = NoRequest
    /\ replies = <<>>
    /\ mounts \in {{}, {<<"/", 0>>}}
    /\ next_id = 1
    /\ eintr = 0
    /\ woke_after = 0
    /\ issued_in = <<>>
    /\ m_pc = "daemon_wait"
    /\ metadata = IF mounts = {} THEN "" ELSE "meta"
    /\ apisock = TRUE
    /\ api_sock_open = TRUE
    /\ vhost_sock_open = TRUE
    /\ wait_result = "none"
    /\ kill_writes = 0
    /\ exit_code = -1
    /\ events = 0
    /\ first_seen = "none"

NextQueue ==
    \/ \E q \in Queues, h \in Heads : GuestAddAvail(q, h)
    \/ update_memory
    \/ \E i \in Indexes, e \in Evsets : handle_event(i, e)
    \/ pq_loop
    \/ pq_add_used
    \/ pq_signal

\* the data plane alone: no admin request arrives
SpecQueue == Init /\ [][NextQueue]_vars

NextAdmin ==
    \/ \E r \in Requests(next_id) : http_submit(r)
    \/ http_exit
    \/ epoll_wait
    \/ api_evt_read
    \/ api_recv
    \/ api_dispatch

\* the admin plane alone: no queue event arrives
SpecAdmin == Init /\ [][NextAdmin]_vars

\* both planes at once: the guest uses queue 0 and head 0, the events are
\* the readable events of queue 0, the HTTP thread submits mount requests
\* for a good image
NextBoth ==
    \/ GuestAddAvail(HIPRIO_QUEUE_EVENT, 0)
    \/ update_memory
    \/ handle_event(HIPRIO_QUEUE_EVENT, EPOLLIN)
    \/ pq_loop
    \/ pq_add_used
    \/ pq_signal
    \/ \E r \in {x \in Requests(next_id) :
                    x.kind = "Mount" /\ x.source = "meta"} : http_submit(r)
    \/ epoll_wait
    \/ api_evt_read
    \/ api_recv
    \/ api_dispatch

SpecBoth == Init /\ [][NextBoth]_vars

\* the message server answers the chain taken with Ok(0), or the drain fails
\* on the batch index
ServedOk ==
    \/ /\ pc' = "pq_loop"
       /\ used_desc_heads' = Append(used_desc_heads, <<Head(avail[cur]), 0>>)
    \/ /\ pc' = "panicked"
       /\ used_count >= QUEUE_SIZE

\* one drain of a flooded high-priority queue in which every chain is well
\* formed and every message is served
NextFlood ==
    \/ GuestFlood
    \/ update_memory
    \/ handle_event(HIPRIO_QUEUE_EVENT, EPOLLIN)
    \/ pq_loop /\ ServedOk

SpecFlood == Init /\ [][NextFlood]_vars

\* the state at the start of main: nothing mounted, no thread started, no
\* socket opened; --metadata and --apisock as the command line has them
InitMain ==
    /\ mem = FALSE
    /\ avail = [q \in Queues |-> <<>>]
    /\ used = [q \in Queues |-> <<>>]
    /\ signals = [q \in Queues |-> 0]
    /\ pc = "idle"
    /\ cur = 0
    /\ used_desc_heads = <<>>
    /\ pub = 0
    /\ ret = "none"
    /\ call = [index |-> 0, evset |-> 0]
    /\ taken = <<>>
    /\ used0 = [q \in Queues |-> <<>>]
    /\ signals0 = [q \in Queues |-> 0]
    /\ added = 0
    /\ api_evt = 0
    /\ api_chan = <<>>
    /\ api_sender_open = TRUE
    /\ api_pc = "unstarted"
    /\ api_ret = "none"
    /\ api_req = NoRequest
    /\ replies = <<>>
    /\ mounts = {}
    /\ next_id = 1
    /\ eintr = 0
    /\ woke_after = 0
    /\ issued_in = <<>>
    /\ m_pc = "setup"
    /\ metadata \in Metadatas
    /\ apisock \in BOOLEAN
    /\ api_sock_open = FALSE
    /\ vhost_sock_open = FALSE
    /\ wait_result = "none"
    /\ kill_writes = 0
    /\ exit_code = -1
    /\ events = 0
    /\ first_seen = "none"

NextMain ==
    \/ main_setup
    \/ main_mount_initial
    \/ main_start_api
    \/ main_daemon_start
    \/ daemon_event
    \/ main_daemon_wait
    \/ main_kill

\* the lifecycle of the process, from the start of main to its end
SpecMain == InitMain /\ [][NextMain]_vars

====
